---- MODULE Spec2Model ----
(***************************************************************************)
(* A model of the goRoute routing table (src/myRoute.go): the Router with  *)
(* its interface map and its two per-family route slices, route            *)
(* compilation (AddRoutes), finalize (Update), and the two lookups         *)
(* (RouteWithSrc, RouteWithNextHop) with their address selectors.          *)
(*                                                                         *)
(* Values.  A net.IP / net.IPMask is the sequence of its bytes; the nil    *)
(* slice is <<>>.  A pointer is a sequence of length 0 (nil) or 1 (the     *)
(* pointee).  A uint32 is the pair <<hi, lo>> of its 16-bit halves, so the *)
(* 32-bit width of the priority arithmetic is kept.  A textual address is  *)
(* [kind, b]: kind "v4" / "v6" with the bytes the text denotes, or "bad"   *)
(* for the empty string and any text that is no address; a CIDR text is    *)
(* [addr, n], the text before and the number after the slash.              *)
(***************************************************************************)
EXTENDS Integers, Sequences, FiniteSets

(* ------------------------------ bounds --------------------------------- *)

\* the most entries the two route slices hold together
MaxEntries == 3
\* the most routes handed to one AddRoutes call
MaxBatch == 2

(* --------------------------- package net ------------------------------- *)

IPv4len == 4
IPv6len == 16
\* 2^16: a uint32 is kept as two halves below this
Half == 65536

Nil == <<>>

v4InV6Prefix == <<0, 0, 0, 0, 0, 0, 0, 0, 0, 0, 255, 255>>

\* ip.To4(): the 4-byte form of an IPv4 address (4 bytes, or 16 bytes with
\* the IPv4-in-IPv6 prefix), nil otherwise
To4(ip) ==
  IF Len(ip) = IPv4len THEN ip
  ELSE IF Len(ip) = IPv6len /\ SubSeq(ip, 1, 12) = v4InV6Prefix
       THEN SubSeq(ip, 13, 16)
       ELSE Nil

\* ip.To16()
To16(ip) ==
  IF Len(ip) = IPv4len THEN v4InV6Prefix \o ip
  ELSE IF Len(ip) = IPv6len THEN ip
  ELSE Nil

\* net.CIDRMask(ones, bits)
CIDRMask(ones, bits) ==
  [i \in 1..(bits \div 8) |->
     LET k == ones - 8 * (i - 1)
     IN  IF k >= 8 THEN 255 ELSE IF k <= 0 THEN 0 ELSE 256 - 2^(8 - k)]

\* IPMask.Size(): the number of leading ones of a canonical mask (whole
\* 0xff bytes, then the leading ones of the next byte, then zeros), 0 for
\* any other mask
MaskSize(m) ==
  LET bits == 8 * Len(m)
      full == Cardinality({i \in 1..Len(m) : \A j \in 1..i : m[j] = 255})
      rest == IF full < Len(m) THEN m[full + 1] ELSE 0
      part == {k \in 0..7 : rest = 256 - 2^(8 - k)}
      n    == 8 * full + (IF part = {} THEN 0 ELSE CHOOSE k \in part : TRUE)
  IN  IF m = CIDRMask(n, bits) THEN n ELSE 0

\* a & m for a byte a and a byte m of a canonical mask (leading ones only)
ByteAnd(a, m) == (a \div (256 - m)) * (256 - m)

\* net.ParseIP(text): always the 16-byte form; nil when the text is no
\* address
ParseIP(t) ==
  IF t.kind = "v4" THEN v4InV6Prefix \o t.b
  ELSE IF t.kind = "v6" THEN t.b
  ELSE Nil

\* net.ParseCIDR(text): the *IPNet, nil on a parse error.  The network
\* address is the address masked, 4 bytes for IPv4 text, 16 for IPv6 text.
ParseCIDR(s) ==
  LET bits == IF s.addr.kind = "v4" THEN 8 * IPv4len ELSE 8 * IPv6len
      m    == CIDRMask(s.n, bits)
  IN  IF s.addr.kind = "bad" \/ s.n < 0 \/ s.n > bits
      THEN Nil
      ELSE << [IP   |-> [i \in 1..Len(m) |-> ByteAnd(s.addr.b[i], m[i])],
               Mask |-> m] >>

\* (*IPNet).Contains(ip) with networkNumberAndMask inlined
Contains(n, ip) ==
  LET n4 == To4(n.IP)
      nn == IF n4 # Nil THEN n4 ELSE n.IP
      okN == IF n4 # Nil THEN TRUE ELSE Len(n.IP) = IPv6len
      m  == IF Len(n.Mask) = IPv6len /\ Len(nn) = IPv4len
            THEN SubSeq(n.Mask, 13, 16) ELSE n.Mask
      okM == /\ Len(n.Mask) \in {IPv4len, IPv6len}
             /\ (Len(n.Mask) = IPv4len => Len(nn) = IPv4len)
      x4 == To4(ip)
      x  == IF x4 # Nil THEN x4 ELSE ip
  IN  /\ okN /\ okM
      /\ Len(x) = Len(nn)
      /\ \A i \in 1..Len(x) : ByteAnd(nn[i], m[i]) = ByteAnd(x[i], m[i])

(* ------------------------------ uint32 --------------------------------- *)

\* a + b in uint32: the sum modulo 2^32
Add32(a, b) ==
  LET lo == a[2] + b[2]
      hi == a[1] + b[1] + (lo \div Half)
  IN  << hi % Half, lo % Half >>

\* a < b in uint32
Less32(a, b) == a[1] < b[1] \/ (a[1] = b[1] /\ a[2] < b[2])

(* ------------------------- types and selectors ------------------------- *)

\* Route.SrcNet(): the parse error is dropped, a bad text gives nil
SrcNet(r) == ParseCIDR(r.Src)

\* Route.DstNet()
DstNet(r) == ParseCIDR(r.Dst)

\* Route.NextHopIP()
NextHopIP(r) == ParseIP(r.NextHop)

\* Route.Selector(): every route answers FirstAddressSelector
Selector(r) == "FirstAddressSelector"

\* FirstAddressSelector(a, src, dst): a pointer to the first address, or nil
FirstAddressSelector(a, src, dst) ==
  IF Len(a) > 0 THEN << a[1] >> ELSE Nil

\* altered FitAddressSelector: falls back to the first address when none fits
FitOrFirstAddress(a, src, dst) ==
  LET fit == {i \in 1..Len(a) :
                Contains([IP |-> a[i].IP, Mask |-> a[i].Netmask], dst)}
  IN  IF fit = {} THEN (IF Len(a) > 0 THEN << a[1] >> ELSE Nil)
      ELSE << a[CHOOSE i \in fit : \A j \in fit : i <= j] >>

\* FitAddressSelector(a, src, dst): a pointer to the first address whose
\* network (IP with Netmask) contains dst, or nil
FitAddressSelector(a, src, dst) ==
  LET fit == {i \in 1..Len(a) :
                Contains([IP |-> a[i].IP, Mask |-> a[i].Netmask], dst)}
  IN  IF fit = {} THEN Nil
      ELSE << a[CHOOSE i \in fit : \A j \in fit : i <= j] >>

\* a call through an InterfaceAddressSelector function value
ApplySelector(sel, a, src, dst) ==
  IF sel = "FitAddressSelector"
  THEN FitAddressSelector(a, src, dst)
  ELSE FirstAddressSelector(a, src, dst)

(* ------------------------------ inputs --------------------------------- *)

A4(a, b, c, d) == [kind |-> "v4", b |-> <<a, b, c, d>>]
A6(first, last) ==
  [kind |-> "v6", b |-> <<first>> \o [i \in 1..14 |-> 0] \o <<last>>]
\* the empty string, which is neither an address nor a CIDR
NoText == [kind |-> "bad", b |-> <<>>]
Cidr(a, n) == [addr |-> a, n |-> n]

\* an InterfaceAddress as main builds one; Broadaddr and Gateway are read
\* by no operation of the Router and are left out
Addr(t, ones) ==
  [IP      |-> ParseIP(t),
   Netmask |-> CIDRMask(ones, IF t.kind = "v4" THEN 32 ELSE 128)]

eth0 == [Id |-> 0, Name |-> "eth0",
         addrs |-> << Addr(A4(192, 168, 1, 2), 24),
                      Addr(A4(192, 168, 1, 3), 24) >>]
eth1 == [Id |-> 1, Name |-> "eth1",
         addrs |-> << Addr(A4(10, 0, 0, 2), 8) >>]
\* an interface whose fitting address is not its first one
eth2 == [Id |-> 2, Name |-> "eth2",
         addrs |-> << Addr(A4(192, 168, 1, 4), 24),
                      Addr(A4(10, 0, 0, 3), 8),
                      Addr(A6(253, 2), 8) >>]
\* a second Interface object carrying the id of eth0, with an address on
\* the destination network ahead of the one that reaches the next hop
eth0b == [Id |-> 0, Name |-> "eth0b",
          addrs |-> << Addr(A4(172, 16, 1, 1), 24),
                       Addr(A4(10, 0, 0, 4), 8) >>]

MaxUint32 == << Half - 1, Half - 1 >>

MkRoute(i, src, dst, p, nh) ==
  [iface |-> i, Src |-> src, Dst |-> dst, Priority |-> p, NextHop |-> nh]

Any4 == Cidr(A4(0, 0, 0, 0), 0)
Ten8 == Cidr(A4(10, 0, 0, 0), 8)
Net24 == Cidr(A4(172, 16, 1, 0), 24)
Net26 == Cidr(A4(172, 16, 1, 0), 26)

\* the three routes of main that overlap
rtDefault == MkRoute(eth0, Any4, Any4, <<0, 0>>, A4(192, 168, 1, 3))
rt24 == MkRoute(eth0, Any4, Net24, <<0, 0>>, A4(192, 168, 1, 2))
rt26 == MkRoute(eth1, Any4, Net26, <<0, 0>>, A4(10, 0, 0, 1))
\* a source constraint on the longest prefix, on a second Interface object
\* with the id of eth0
rt26Src == MkRoute(eth0b, Ten8, Net26, <<0, 0>>, A4(10, 0, 0, 1))
\* a source constraint, priority 1, no next hop
rt24Src == MkRoute(eth2, Ten8, Net24, <<0, 1>>, NoText)
\* an unparsable source, the priority at the top of uint32
rt24Max == MkRoute(eth2, Cidr(NoText, 0), Net24, MaxUint32, A4(10, 0, 0, 1))
\* an unparsable destination
rtBadDst == MkRoute(eth1, Any4, Cidr(NoText, 0), <<0, 0>>, A4(10, 0, 0, 1))
\* an IPv6 route
rtV6 == MkRoute(eth2, Cidr(NoText, 0), Cidr(A6(253, 0), 8), <<0, 0>>, A6(253, 1))

src1 == ParseIP(A4(192, 168, 1, 2))
src2 == ParseIP(A4(10, 0, 0, 5))
dst10 == ParseIP(A4(172, 16, 1, 10))
dst100 == ParseIP(A4(172, 16, 1, 100))
dstFar == ParseIP(A4(223, 5, 5, 5))
dstV6 == ParseIP(A6(253, 9))

\* What the caller of the Router works with: the routes it may hand to
\* AddRoutes, the priority offsets of its batches, and the addresses it
\* queries (as net.ParseIP gives them; the nil IP is of neither family).
\* One caller per concern keeps the tables of each small: overlapping
\* prefixes, priorities, and address families with a bad destination.
Callers ==
  { [routes  |-> {rtDefault, rt24, rt26, rt26Src},
     offsets |-> { <<0, 0>> },
     srcs    |-> {src1, src2},
     dsts    |-> {dst10, dst100, dstFar}],
    [routes  |-> {rt24, rt24Src, rt24Max},
     offsets |-> { <<0, 0>>, <<0, 1>> },
     srcs    |-> {src1, src2},
     dsts    |-> {dst100}],
    [routes  |-> {rt24, rtV6, rtBadDst},
     offsets |-> { <<0, 0>> },
     srcs    |-> {src1},
     dsts    |-> {dst100, dstV6, Nil}] }

\* the batches of one AddRoutes call
Batches(routes) ==
  UNION { [1..n -> routes] : n \in 1..MaxBatch }

(* ------------------------------ Router --------------------------------- *)

VARIABLES
  caller,     \* the caller: its routes, offsets and query addresses
  ifaces,     \* Router.ifaces: interface id -> Interface
  v4,         \* Router.v4: the IPv4 route slice
  v6,         \* Router.v6: the IPv6 route slice
  fault,      \* "none", or the run-time panic that ended the program
  call,       \* the last call: its name and arguments
  built,      \* the RTInfos the last AddRoutes call built, in order
  ret,        \* what the last lookup returned, with route's result rt
  finalized   \* Update has run and AddRoutes has not run since

vars == << caller, ifaces, v4, v6, fault, call, built, ret, finalized >>

NoFault == "none"
NilDeref == "invalid memory address or nil pointer dereference"

NoRet == [iface |-> Nil, preferredSrc |-> Nil, nextHop |-> Nil,
          err |-> "", rt |-> Nil]

\* r.ifaces[id] = iface
MapSet(m, id, iface) ==
  [i \in DOMAIN m \cup {id} |-> IF i = id THEN iface ELSE m[i]]

\* altered Bucket: every entry with an address goes to the IPv4 slice
BucketAtLeastV4(dst) ==
  IF Len(dst.IP) >= IPv4len THEN "v4" ELSE "none"

\* which slice an entry is appended to, by the byte length of its
\* destination network address
Bucket(dst) ==
  IF Len(dst.IP) = IPv4len THEN "v4"
  ELSE IF Len(dst.IP) = IPv6len THEN "v6"
  ELSE "none"

\* the effective priority of an entry: uint32 addition
EffectivePriority(p, priority) == Add32(p, priority)

\* one iteration of AddRoutes' loop on the state st = [ifaces, v4, v6,
\* built, fault].  route.DstNet().IP on a nil *IPNet is a nil pointer
\* dereference: the panic leaves the interface registered and the entry
\* built but appended nowhere.
AddOne(st, route, priority) ==
  LET iface == route.iface
      rt == [Src      |-> SrcNet(route),
             Dst      |-> DstNet(route),
             Selector |-> Selector(route),
             Priority |-> EffectivePriority(route.Priority, priority),
             Iface    |-> iface.Id,
             NextHop  |-> NextHopIP(route)]
      reg == [st EXCEPT !.ifaces = MapSet(st.ifaces, iface.Id, iface),
                        !.built = Append(st.built, rt)]
  IN  IF DstNet(route) = Nil
      THEN [reg EXCEPT !.fault = NilDeref]
      ELSE IF Bucket(DstNet(route)[1]) = "v4"
           THEN [reg EXCEPT !.v4 = Append(reg.v4, rt)]
           ELSE IF Bucket(DstNet(route)[1]) = "v6"
                THEN [reg EXCEPT !.v6 = Append(reg.v6, rt)]
                ELSE reg

\* the loop over routes...; a panic ends it
RECURSIVE AddLoop(_, _, _)
AddLoop(st, routes, priority) ==
  IF routes = <<>> \/ st.fault # NoFault THEN st
  ELSE AddLoop(AddOne(st, Head(routes), priority), Tail(routes), priority)

\* Router.AddRoutes(priority, routes...)
AddRoutes(priority, routes) ==
  LET st == AddLoop([ifaces |-> ifaces, v4 |-> v4, v6 |-> v6,
                     built |-> <<>>, fault |-> NoFault], routes, priority)
  IN  /\ fault = NoFault
      /\ Len(v4) + Len(v6) + Len(routes) <= MaxEntries
      /\ ifaces' = st.ifaces
      /\ v4' = st.v4
      /\ v6' = st.v6
      /\ built' = st.built
      /\ fault' = st.fault
      /\ call' = [op |-> "AddRoutes", priority |-> priority, routes |-> routes,
                  before |-> Len(v4) + Len(v6)]
      /\ ret' = NoRet
      /\ finalized' = FALSE
      /\ UNCHANGED caller

\* altered Less: shorter destination prefix first
LessShortFirst(r, i, j) ==
  LET iSize == MaskSize(r[i].Dst[1].Mask)
      jSize == MaskSize(r[j].Dst[1].Mask)
  IN  IF iSize # jSize THEN iSize < jSize
      ELSE Less32(r[i].Priority, r[j].Priority)

\* altered Less: the larger priority value first
LessLargePriorityFirst(r, i, j) ==
  LET iSize == MaskSize(r[i].Dst[1].Mask)
      jSize == MaskSize(r[j].Dst[1].Mask)
  IN  IF iSize # jSize THEN jSize < iSize
      ELSE Less32(r[j].Priority, r[i].Priority)

\* routeSlice.Less(i, j): longer destination prefix first, then the smaller
\* priority
Less(r, i, j) ==
  LET iSize == MaskSize(r[i].Dst[1].Mask)
      jSize == MaskSize(r[j].Dst[1].Mask)
  IN  IF iSize # jSize THEN jSize < iSize
      ELSE Less32(r[i].Priority, r[j].Priority)

\* the slice is in order by Less: no later element is less than an earlier
IsSorted(r) ==
  \A i \in 1..Len(r) : \A j \in (i + 1)..Len(r) : ~Less(r, j, i)

Perms(n) ==
  {p \in [1..n -> 1..n] : \A i \in 1..n : \A j \in 1..n : i # j => p[i] # p[j]}

\* sort.Sort(r): the slice reordered (through Swap) into an order sorted by
\* Less.  sort.Sort is documented as not stable, and where it puts elements
\* that neither is Less than the other depends on the library version's
\* algorithm, so every sorted arrangement is an outcome.
SortOutcomes(r) ==
  {t \in {[i \in 1..Len(r) |-> r[p[i]]] : p \in Perms(Len(r))} : IsSorted(t)}

\* Router.Update()
Update ==
  /\ fault = NoFault
  /\ v4' \in SortOutcomes(v4)
  /\ v6' \in SortOutcomes(v6)
  /\ call' = [op |-> "Update"]
  /\ built' = << >>
  /\ ret' = NoRet
  /\ finalized' = TRUE
  /\ UNCHANGED << caller, ifaces, fault >>

ErrNoRoute == "no route found for dst"
ErrInvalid == "IP is not valid as IPv4 or IPv6"

\* the test route applies to one entry
Matches(rt, src, dst) ==
  /\ ~(rt.Src # Nil /\ ~Contains(rt.Src[1], src))
  /\ ~(rt.Dst # Nil /\ ~Contains(rt.Dst[1], dst))

\* altered route: the source prefix is not tested
routeIgnoresSrc(routes, src, dst) ==
  LET hit == {i \in 1..Len(routes) :
                ~(routes[i].Dst # Nil /\ ~Contains(routes[i].Dst[1], dst))}
  IN  IF hit # {}
      THEN [rt  |-> << routes[CHOOSE i \in hit : \A j \in hit : i <= j] >>,
            err |-> ""]
      ELSE [rt  |-> IF routes = << >> THEN Nil ELSE << routes[Len(routes)] >>,
            err |-> ErrNoRoute]

\* altered route: gives up after the first entry
routeFirstOnly(routes, src, dst) ==
  IF routes # << >> /\ Matches(routes[1], src, dst)
  THEN [rt |-> << routes[1] >>, err |-> ""]
  ELSE [rt  |-> IF routes = << >> THEN Nil ELSE << routes[1] >>,
        err |-> ErrNoRoute]

\* Router.route(routes, src, dst): the first entry that matches.  The loop
\* variable is the named result, so on failure rt is left at the last entry
\* visited (nil on an empty slice) beside the error.
route(routes, src, dst) ==
  LET hit == {i \in 1..Len(routes) : Matches(routes[i], src, dst)}
  IN  IF hit # {}
      THEN [rt  |-> << routes[CHOOSE i \in hit : \A j \in hit : i <= j] >>,
            err |-> ""]
      ELSE [rt  |-> IF routes = << >> THEN Nil ELSE << routes[Len(routes)] >>,
            err |-> ErrNoRoute]

\* the switch both lookups open with
Dispatch(src, dst) ==
  IF To4(dst) # Nil THEN route(v4, src, dst)
  ELSE IF To16(dst) # Nil THEN route(v6, src, dst)
  ELSE [rt |-> Nil, err |-> ErrInvalid]

\* what RouteWithSrc returns, with its local rt
SrcResult(src, dst) ==
  LET r == Dispatch(src, dst)
  IN  IF r.err # ""
      THEN [iface |-> Nil, preferredSrc |-> Nil, nextHop |-> Nil,
            err |-> r.err, rt |-> r.rt]
      ELSE LET iface == ifaces[r.rt[1].Iface]
               selector == IF r.rt[1].Selector # "nil"
                           THEN r.rt[1].Selector ELSE "FirstAddressSelector"
           IN  [iface        |-> << iface >>,
                preferredSrc |-> ApplySelector(selector, iface.addrs, src, dst),
                nextHop      |-> Nil,
                err          |-> "",
                rt           |-> r.rt]

\* altered RouteWithNextHop: the address is selected for dst even when the
\* entry has a next hop
NextHopResultForDst(src, dst) ==
  LET r == Dispatch(src, dst)
  IN  IF r.err # ""
      THEN [iface |-> Nil, preferredSrc |-> Nil, nextHop |-> Nil,
            err |-> r.err, rt |-> r.rt]
      ELSE LET iface == ifaces[r.rt[1].Iface]
           IN  [iface        |-> << iface >>,
                preferredSrc |-> FitAddressSelector(iface.addrs, src, dst),
                nextHop      |-> r.rt[1].NextHop,
                err          |-> "",
                rt           |-> r.rt]

\* what RouteWithNextHop returns, with its local rt
NextHopResult(src, dst) ==
  LET r == Dispatch(src, dst)
  IN  IF r.err # ""
      THEN [iface |-> Nil, preferredSrc |-> Nil, nextHop |-> Nil,
            err |-> r.err, rt |-> r.rt]
      ELSE LET iface == ifaces[r.rt[1].Iface]
               target == IF r.rt[1].NextHop # Nil THEN r.rt[1].NextHop ELSE dst
           IN  [iface        |-> << iface >>,
                preferredSrc |-> FitAddressSelector(iface.addrs, src, target),
                nextHop      |-> r.rt[1].NextHop,
                err          |-> "",
                rt           |-> r.rt]

\* a successful lookup reads r.ifaces[rt.Iface] and calls its Addresses():
\* an id the map does not hold gives a nil *Interface and a panic
Dangling(src, dst) ==
  LET r == Dispatch(src, dst)
  IN  r.err = "" /\ r.rt[1].Iface \notin DOMAIN ifaces

Lookup(op, src, dst, result) ==
  /\ fault = NoFault
  /\ call' = [op |-> op, src |-> src, dst |-> dst]
  /\ built' = << >>
  /\ IF Dangling(src, dst)
     THEN fault' = NilDeref /\ ret' = NoRet
     ELSE fault' = fault /\ ret' = result
  /\ UNCHANGED << caller, ifaces, v4, v6, finalized >>

\* Router.RouteWithSrc(src, dst)
RouteWithSrc(src, dst) ==
  Lookup("RouteWithSrc", src, dst, SrcResult(src, dst))

\* Router.RouteWithNextHop(src, dst)
RouteWithNextHop(src, dst) ==
  Lookup("RouteWithNextHop", src, dst, NextHopResult(src, dst))

\* NewRouter()
Init ==
  /\ caller \in Callers
  /\ ifaces = << >>
  /\ v4 = << >>
  /\ v6 = << >>
  /\ fault = NoFault
  /\ call = [op |-> "NewRouter"]
  /\ built = << >>
  /\ ret = NoRet
  /\ finalized = FALSE

Next ==
  \/ \E priority \in caller.offsets, routes \in Batches(caller.routes) :
       AddRoutes(priority, routes)
  \/ Update
  \/ \E src \in caller.srcs, dst \in caller.dsts : RouteWithSrc(src, dst)
  \/ \E src \in caller.srcs, dst \in caller.dsts : RouteWithNextHop(src, dst)

Spec == Init /\ [][Next]_vars

(* ------------------------------ claims --------------------------------- *)

\* the last call was a lookup that ran to its return
Looked ==
  /\ call.op \in {"RouteWithSrc", "RouteWithNextHop"}
  /\ fault = NoFault

\* the last call was a lookup that returned an entry's answer
Answered == Looked /\ ret.err = "" /\ ret.rt # Nil

\* the slice of the queried destination's family
HasFamily(dst) == To4(dst) # Nil \/ To16(dst) # Nil
FamilySeq(dst) ==
  IF To4(dst) # Nil THEN v4 ELSE IF To16(dst) # Nil THEN v6 ELSE << >>

\* an entry's prefix is absent or contains the address
SrcOk(e, src) == e.Src = Nil \/ Contains(e.Src[1], src)
DstOk(e, dst) == e.Dst = Nil \/ Contains(e.Dst[1], dst)
BothOk(e, src, dst) == SrcOk(e, src) /\ DstOk(e, dst)

PrefixLen(e) == MaskSize(e.Dst[1].Mask)

\* C1: longest-prefix-match.  After Update with no AddRoutes since, the
\* entry a successful lookup chose is an entry of the destination's family
\* slice that matches src and dst, and no entry of that slice matching both
\* has a strictly longer destination prefix.
C1_LongestPrefixMatch ==
  (finalized /\ Answered) =>
    LET seq == FamilySeq(call.dst)
    IN  /\ \E i \in 1..Len(seq) : seq[i] = ret.rt[1]
        /\ BothOk(ret.rt[1], call.src, call.dst)
        /\ \A i \in 1..Len(seq) :
             BothOk(seq[i], call.src, call.dst)
               => PrefixLen(seq[i]) <= PrefixLen(ret.rt[1])

\* a finalized lookup chose an entry while a matching entry with a shorter
\* prefix was in the slice
C1_Witness ==
  /\ finalized /\ Answered
  /\ \E i \in 1..Len(FamilySeq(call.dst)) :
       /\ BothOk(FamilySeq(call.dst)[i], call.src, call.dst)
       /\ PrefixLen(FamilySeq(call.dst)[i]) < PrefixLen(ret.rt[1])

\* C2: priority tie-break.  After Update with no AddRoutes since, no entry
\* matching src and dst with the chosen entry's prefix length has a
\* strictly smaller effective priority than the chosen entry.
C2_PriorityTieBreak ==
  (finalized /\ Answered) =>
    LET seq == FamilySeq(call.dst)
    IN  \A i \in 1..Len(seq) :
          (BothOk(seq[i], call.src, call.dst)
             /\ PrefixLen(seq[i]) = PrefixLen(ret.rt[1]))
            => ~Less32(seq[i].Priority, ret.rt[1].Priority)

\* a finalized lookup chose an entry while a matching entry of the same
\* prefix length and a larger priority value was in the slice
C2_Witness ==
  /\ finalized /\ Answered
  /\ \E i \in 1..Len(FamilySeq(call.dst)) :
       /\ BothOk(FamilySeq(call.dst)[i], call.src, call.dst)
       /\ PrefixLen(FamilySeq(call.dst)[i]) = PrefixLen(ret.rt[1])
       /\ Less32(ret.rt[1].Priority, FamilySeq(call.dst)[i].Priority)

\* C3: source constraint.  In every table state, sorted or not, the entry a
\* lookup chose has no source prefix or one that contains src.
C3_SourceConstraint ==
  Answered => SrcOk(ret.rt[1], call.src)

\* a lookup chose an entry although the first entry of the slice, one with
\* a longer prefix containing dst, has a source prefix that excludes src
C3_Witness ==
  /\ Answered
  /\ Len(FamilySeq(call.dst)) > 1
  /\ DstOk(FamilySeq(call.dst)[1], call.dst)
  /\ ~SrcOk(FamilySeq(call.dst)[1], call.src)
  /\ PrefixLen(ret.rt[1]) < PrefixLen(FamilySeq(call.dst)[1])

\* C4: no-route outcome.  A lookup for a destination of either family
\* fails with the no-route error exactly when no entry of the family's
\* slice matches src and dst; with no routes at all every lookup fails; a
\* failed lookup returns no interface and no local address.
C4_NoRouteOutcome ==
  Looked =>
    /\ HasFamily(call.dst) =>
         (ret.err = ErrNoRoute <=>
            ~\E i \in 1..Len(FamilySeq(call.dst)) :
               BothOk(FamilySeq(call.dst)[i], call.src, call.dst))
    /\ (v4 = << >> /\ v6 = << >>) => ret.err # ""
    /\ ret.err # "" => (ret.iface = Nil /\ ret.preferredSrc = Nil)

\* a lookup failed with the no-route error on a slice that holds entries
C4_Witness ==
  /\ Looked
  /\ ret.err = ErrNoRoute
  /\ Len(FamilySeq(call.dst)) > 0

\* the positions of the routes of the last AddRoutes call whose Dst does
\* not parse
BadDst == {i \in 1..Len(call.routes) : ParseCIDR(call.routes[i].Dst) = Nil}

\* C5: a malformed destination is rejected.  An AddRoutes call given a
\* route whose Dst does not parse ends without a fault, and the routes
\* with a Dst that does not parse added no entry to either slice.
C5_MalformedDstRejected ==
  (call.op = "AddRoutes" /\ BadDst # {}) =>
    /\ fault = NoFault
    /\ Len(v4) + Len(v6) - call.before
         <= Len(call.routes) - Cardinality(BadDst)

\* C6: idempotent finalize.  An Update with no AddRoutes since the Update
\* before it leaves both slices in exactly the order they had.
C6_IdempotentFinalize ==
  [][(finalized /\ call'.op = "Update") => (v4' = v4 /\ v6' = v6)]_vars

\* the target RouteWithNextHop selects the local address for
Target == IF ret.rt[1].NextHop # Nil THEN ret.rt[1].NextHop ELSE call.dst

\* the address's network (IP with its netmask) contains ip
NetHas(a, ip) == Contains([IP |-> a.IP, Mask |-> a.Netmask], ip)

\* C7: no matching local address is its own outcome.  When an entry
\* matches, RouteWithNextHop returns the interface without an error, which
\* the no-route failure never does; and when no address of that interface
\* has a network containing the target it returns no local address.
C7_NoMatchingAddress ==
  (/\ Looked
   /\ call.op = "RouteWithNextHop"
   /\ \E i \in 1..Len(FamilySeq(call.dst)) :
        BothOk(FamilySeq(call.dst)[i], call.src, call.dst)) =>
    /\ ret.err = ""
    /\ ret.iface # Nil
    /\ ret.rt # Nil
    /\ (\A i \in 1..Len(ret.iface[1].addrs) :
          ~NetHas(ret.iface[1].addrs[i], Target))
         => ret.preferredSrc = Nil

\* RouteWithNextHop found an entry whose interface has addresses, none with
\* a network containing the target, and returned no local address
C7_Witness ==
  /\ Answered
  /\ call.op = "RouteWithNextHop"
  /\ Len(ret.iface[1].addrs) > 0
  /\ \A i \in 1..Len(ret.iface[1].addrs) :
       ~NetHas(ret.iface[1].addrs[i], Target)
  /\ ret.preferredSrc = Nil

\* C8: next-hop override.  A successful RouteWithNextHop returns the
\* interface registered under the chosen entry's id and exactly the
\* entry's next hop, and a local address it returns is the first address
\* of that interface whose network contains the target (the next hop when
\* the entry has one, else the destination).
C8_NextHopOverride ==
  (Answered /\ call.op = "RouteWithNextHop") =>
    /\ ret.nextHop = ret.rt[1].NextHop
    /\ ret.iface = << ifaces[ret.rt[1].Iface] >>
    /\ ret.preferredSrc # Nil =>
         \E i \in 1..Len(ret.iface[1].addrs) :
           /\ ret.iface[1].addrs[i] = ret.preferredSrc[1]
           /\ NetHas(ret.iface[1].addrs[i], Target)
           /\ \A j \in 1..(i - 1) : ~NetHas(ret.iface[1].addrs[j], Target)

\* RouteWithNextHop returned, for an entry with a next hop, an address that
\* is not the interface's first and whose network does not contain the
\* destination
C8_Witness ==
  /\ Answered
  /\ call.op = "RouteWithNextHop"
  /\ ret.rt[1].NextHop # Nil
  /\ ret.preferredSrc # Nil
  /\ ret.preferredSrc[1] # ret.iface[1].addrs[1]
  /\ ~NetHas(ret.preferredSrc[1], call.dst)

\* C9: family isolation.  The IPv4 slice holds only entries with a 4-byte
\* destination network and the IPv6 slice only entries with a 16-byte one,
\* and the entry a lookup chose has a destination network of the queried
\* destination's family.
C9_FamilyIsolation ==
  /\ \A i \in 1..Len(v4) : Len(v4[i].Dst[1].IP) = IPv4len
  /\ \A i \in 1..Len(v6) : Len(v6[i].Dst[1].IP) = IPv6len
  /\ Answered =>
       Len(ret.rt[1].Dst[1].IP) =
         (IF To4(call.dst) # Nil THEN IPv4len ELSE IPv6len)

\* a lookup for an IPv6 destination was answered while the IPv4 slice held
\* entries
C9_Witness ==
  /\ Answered
  /\ To4(call.dst) = Nil
  /\ Len(v4) > 0

\* the sum of two uint32 in full: << carry, hi, lo >>
WideSum(a, b) ==
  LET lo == a[2] + b[2]
      hi == a[1] + b[1] + (lo \div Half)
  IN  << hi \div Half, hi % Half, lo % Half >>

\* C10: effective priority is the sum.  Every entry AddRoutes builds
\* carries the route's priority plus the batch's offset, the arithmetic sum
\* with no wrap-around.
C10_PriorityIsSum ==
  call.op = "AddRoutes" =>
    \A i \in 1..Len(built) :
      << 0, built[i].Priority[1], built[i].Priority[2] >>
        = WideSum(call.routes[i].Priority, call.priority)

====
